---- MODULE Spec2Model ----
(***************************************************************************)
(* Model of poster_bot.py: a Telegram bot that publishes blog posts from a *)
(* guided manual conversation and from monitored channel posts.            *)
(*                                                                         *)
(* One action per handler registered on the dispatcher (lines 288-303).    *)
(* An action is enabled for an update when the dispatcher would route the  *)
(* update to that handler (first matching handler of group 0).             *)
(*                                                                         *)
(* Text is a sequence of tokens; a token is a sequence of string parts.    *)
(* A URL token starts with the scheme part; "domain in url" (substring) is *)
(* "the domain is one of the parts of the token".                          *)
(*                                                                         *)
(* Environment assumptions: update.message.reply_text and the media        *)
(* download of a handler succeed; the collaborators of the publish routine *)
(* (client construction, image upload, posts().insert, bot.send_message)   *)
(* may each fail, and their outcome is input to the publish routine.       *)
(*                                                                         *)
(* Specifications: Spec (one user in two chats), SpecOne (one chat),       *)
(* SpecChannel (channel posts and the allowlist commands), SpecThreads     *)
(* (add_site and remove_site in concurrent request threads), SpecHtml      *)
(* (build_blog_post_html on every input).                                  *)
(***************************************************************************)
EXTENDS Naturals, Sequences, FiniteSets, TLC

VARIABLES conversations,      \* ConversationHandler.conversations: key -> state
          user_data,          \* dispatcher.user_data: user -> dict
          files,              \* paths of the temp files on disk
          VALID_LINK_DOMAINS, \* the in-memory allowlist (module global)
          domains_file,       \* content of allowed_domains.txt, one domain per line
          media,              \* history: key -> path downloaded in the current run
          published,          \* history: keys whose current run has called publish
          last,               \* observation of the event handled last
          entered,            \* history: key -> title and caption its own states received
          workers,            \* request-handler threads of the web server
          render              \* an application of build_blog_post_html

vars == <<conversations, user_data, files, VALID_LINK_DOMAINS, domains_file,
          media, published, last, entered, workers, render>>

----------------------------------------------------------------------------
(* Bounds *)

MaxFileId == 1        \* telegram file ids are 1..MaxFileId
MaxCaptionLen == 2    \* tokens in the caption of a channel post
MaxLinks == 3         \* links in a list given to build_blog_post_html

----------------------------------------------------------------------------
(* Values *)

None == <<>>                  \* Python None where a path or a text is expected
NoneId == "None"              \* Python None where an identifier is expected

Users == {"u1", "u2"}
ADMIN_ID == "u1"
PrivateChats == {"c1", "c2"}
Channels == {"ch1", "ch2"}
SOURCE_CHANNEL_IDS == {"ch1"}

\* (chat, user) pairs that occur: c1 is the private chat of u1, c2 a group.
ConvKeys == {<<"c1", "u1">>, <<"c2", "u1">>, <<"c2", "u2">>}
\* the pairs that run the manual conversation: one user, in two chats
ManualKeys == {<<"c1", "u1">>, <<"c2", "u1">>}

END == "END"
GET_TITLE == "GET_TITLE"
GET_MEDIA == "GET_MEDIA"
GET_CAPTION == "GET_CAPTION"
GET_LINKS == "GET_LINKS"
ConvStates == {END, GET_TITLE, GET_MEDIA, GET_CAPTION, GET_LINKS}

Domains == {"example.com", "terabox.com"}
DomainOrder == <<"example.com", "terabox.com">>   \* ascending, as sorted() yields
DEFAULT_DOMAINS == {"terabox.com"}

Word == <<"hello">>
Junk == <<"watch online">>
UrlTera == <<"https://", "terabox.com", "/x">>
UrlOther == <<"https://", "example.com", "/x">>
Tokens == {Word, UrlTera, UrlOther}

FileIds == 1..MaxFileId

RECURSIVE SeqsUpTo(_, _)
SeqsUpTo(S, n) ==
    IF n = 0 THEN {<<>>}
    ELSE LET shorter == SeqsUpTo(S, n - 1)
         IN shorter \cup {Append(s, t) : s \in {x \in shorter : Len(x) = n - 1}, t \in S}

Captions == SeqsUpTo(Tokens, MaxCaptionLen)
ManualTexts == {<<Word>>, <<Word, UrlOther>>}

RawArgs == {"terabox.com", "TeraBox.COM", "example.com"}
ArgLists == {<<>>} \cup {<<a>> : a \in RawArgs}

----------------------------------------------------------------------------
(* Updates delivered to the webhook *)

MediaKinds == {"photo", "video", "video_nothumb"}
\* the kinds the whole-bot specification sends: a video with a thumbnail is
\* handled as a photo is
BotMediaKinds == {"photo", "video_nothumb"}

Update(utype, chat, user, kind, text, cmd, args, file_id) ==
    [utype |-> utype, chat |-> chat, user |-> user, kind |-> kind, text |-> text,
     cmd |-> cmd, args |-> args, file_id |-> file_id]

TextUpdates ==
    {Update("message", k[1], k[2], "text", t, "", <<>>, 0) :
        k \in ManualKeys, t \in ManualTexts}
\* get_caption stores the text as it is and nothing ever parses it: one text
\* is told apart from the default '' of a cleared session
CaptionUpdates == {u \in TextUpdates : u.text = <<Word>>}
CommandUpdates ==
    {Update("message", k[1], k[2], "command", <<>>, c, <<>>, 0) :
        k \in ManualKeys, c \in {"start", "skip", "cancel"}}
    \cup
    {Update("message", k[1], k[2], "command", <<>>, c, <<>>, 0) :
        k \in ConvKeys, c \in {"help"}}
    \cup
    {Update("message", k[1], k[2], "command", <<>>, c, <<>>, 0) :
        k \in {<<"c1", "u1">>, <<"c2", "u2">>}, c \in {"listsites"}}
    \cup
    {Update("message", k[1], k[2], "command", <<>>, c, a, 0) :
        k \in {<<"c1", "u1">>, <<"c2", "u2">>}, c \in {"addsite", "removesite"},
        a \in ArgLists}
MediaUpdates ==
    {Update("message", k[1], k[2], m, <<>>, "", <<>>, f) :
        k \in ManualKeys, m \in BotMediaKinds, f \in FileIds}
OtherUpdates ==
    {Update("message", k[1], k[2], "sticker", <<>>, "", <<>>, 0) : k \in ManualKeys}
AllowlistCommands ==
    {u \in CommandUpdates : u.cmd \in {"addsite", "removesite", "listsites"}}

ChannelPosts(captions, kinds, file_ids) ==
    {Update("channel_post", c, NoneId, m, t, "", <<>>, f) :
        c \in Channels, m \in kinds, t \in captions, f \in file_ids}
    \cup
    {Update("channel_post", c, NoneId, "text", t, "", <<>>, 0) :
        c \in Channels, t \in captions \ {<<>>}}
    \cup
    {Update("edited_channel_post", c, NoneId, "photo", <<UrlTera>>, "", <<>>, f) :
        c \in Channels, f \in file_ids}

\* the updates of the whole bot: every kind of message of the conversations,
\* and channel posts with a few captions
BotCaptions == {<<Junk, UrlTera>>}
Updates == TextUpdates \cup (CommandUpdates \ AllowlistCommands) \cup MediaUpdates
           \cup OtherUpdates \cup ChannelPosts(BotCaptions, BotMediaKinds, FileIds)

\* the updates of the channel pipeline: every channel post, and the admin's
\* commands that change the allowlist
ChannelUpdates ==
    ChannelPosts(Captions, MediaKinds, {1})
    \cup AllowlistCommands

----------------------------------------------------------------------------
(* Dispatch: ConversationHandler first, then the other handlers of group 0 *)

NoHandler == "none"

IsCommand(u, name) == u.utype = "message" /\ u.kind = "command" /\ u.cmd = name
IsPlainText(u) == u.utype = "message" /\ u.kind = "text"
IsMedia(u) == u.kind \in MediaKinds

ConvKey(u) == <<u.chat, u.user>>

\* states={...}: the first handler of the state's list whose filter accepts u
StateHandler(state, u) ==
    CASE state = GET_TITLE /\ IsPlainText(u) -> "get_title"
      [] state = GET_MEDIA /\ IsMedia(u) -> "get_media"
      [] state = GET_MEDIA /\ IsCommand(u, "skip") -> "skip_media"
      [] state = GET_MEDIA /\ IsPlainText(u) -> "media_prompt"
      [] state = GET_CAPTION /\ IsPlainText(u) -> "get_caption"
      [] state = GET_LINKS /\ IsPlainText(u) -> "create_manual_post"
      [] OTHER -> NoHandler

\* conv_handler: entry points only without a conversation (allow_reentry is
\* not set), then the handlers of the state, then the fallbacks
conv_handler(u, convs) ==
    IF u.utype # "message" THEN NoHandler
    ELSE LET state == convs[ConvKey(u)]
         IN IF state = END
            THEN (IF IsCommand(u, "start") THEN "start" ELSE NoHandler)
            ELSE IF StateHandler(state, u) # NoHandler THEN StateHandler(state, u)
            ELSE IF IsCommand(u, "cancel") THEN "cancel"
            ELSE NoHandler

dispatcher(u, convs) ==
    IF conv_handler(u, convs) # NoHandler THEN conv_handler(u, convs)
    ELSE IF IsMedia(u) /\ u.chat \in Channels THEN "channel_post_handler"
    ELSE IF IsCommand(u, "addsite") THEN "add_site"
    ELSE IF IsCommand(u, "removesite") THEN "remove_site"
    ELSE IF IsCommand(u, "listsites") THEN "list_sites"
    ELSE IF IsCommand(u, "help") THEN "help_command"
    ELSE NoHandler

----------------------------------------------------------------------------
(* Helper functions *)

LOG_CHANNEL_ID == "log"

\* an entry is handed to the log channel only when the channel is configured;
\* a failure to deliver it is swallowed
send_log(log, message, is_error) ==
    IF LOG_CHANNEL_ID # NoneId
    THEN Append(log, [message |-> message, is_error |-> is_error])
    ELSE log

\* sorted(list(domains_set)), one line per domain
save_domains(domains_set) == SelectSeq(DomainOrder, LAMBDA d : d \in domains_set)

\* {line.strip() for line in f if line.strip()}
load_domains(file) == {file[i] : i \in 1..Len(file)}

IsUrl(token) == Len(token) >= 2 /\ token[1] \in {"http://", "https://"}

\* findall_urls with a pattern that matches every word
findall_urls_every_word(text) == text

\* re.findall(r'https?://\S+', text)
findall_urls(text) == SelectSeq(text, IsUrl)

\* domain in url
domain_in(domain, url) == \E i \in 1..Len(url) : url[i] = domain

photo_path_of(file_id) == <<"temp_", file_id, ".jpg">>

\* Outcomes of the collaborators of one publish attempt:
\*   svc  client construction: "ok", or "fail" (any exception)
\*   up   image upload: "url", "none" (no API key, RequestException or
\*        success false), or "raise" (any other exception)
\*   ins  posts().insert(...).execute(): "ok" or "raise"
\*   r1   whether the send_message of the try block is delivered
\*   r2   whether the send_message of the except block is delivered
Outcomes == [svc : {"ok", "fail"}, up : {"url", "none", "raise"},
             ins : {"ok", "raise"}, r1 : BOOLEAN, r2 : BOOLEAN]

\* One outcome for each way an attempt can go: the outcome of a call that is
\* not made is not drawn (it is left at "url", "ok" or TRUE).
OutcomesFor(has_file, notify) ==
    {out \in Outcomes :
        /\ out.svc = "fail" => out.up = "url" /\ out.ins = "ok"
        /\ ~has_file => out.up = "url"
        /\ out.up # "url" => out.ins = "ok"
        /\ ~notify => out.r1 /\ out.r2
        /\ (out.r1 /\ out.up # "raise" /\ out.ins # "raise") => out.r2}

get_blogger_service(out) ==
    IF out.svc = "ok"
    THEN [service |-> TRUE, audit |-> <<>>]
    ELSE [service |-> FALSE,
          audit |-> send_log(<<>>, "Failed to build Google service", TRUE)]

upload_to_imagebb(image_path, out) ==
    CASE out.up = "url" -> [url |-> <<"https://", "i.ibb.co", image_path[2]>>, raised |-> FALSE]
      [] out.up = "none" -> [url |-> None, raised |-> FALSE]
      [] OTHER -> [url |-> None, raised |-> TRUE]

TELEGRAM_CHANNEL_LINK == <<"https://", "t.me", "/channel">>
INSTAGRAM_LINK == None

\* build_blog_post_html with the labels numbered as enumerate() counts
build_blog_post_html_from_zero(image_url, caption_text, links_list) ==
    LET dynamic_buttons ==
            IF Len(links_list) = 1
            THEN <<[href |-> links_list[1], label |-> <<"Watch Video">>]>>
            ELSE [j \in 1..Len(links_list) |->
                     LET i == j - 1     \* enumerate(links_list) counts from 0
                     IN [href |-> links_list[j], label |-> <<"Watch Video", i>>]]
        footer_buttons ==
            (IF TELEGRAM_CHANNEL_LINK # None
             THEN <<[href |-> TELEGRAM_CHANNEL_LINK, label |-> <<"Join All Channels">>]>>
             ELSE <<>>)
            \o
            (IF INSTAGRAM_LINK # None
             THEN <<[href |-> INSTAGRAM_LINK, label |-> <<"Follow on Instagram">>]>>
             ELSE <<>>)
        image_tag == IF image_url # None THEN <<[src |-> image_url]>> ELSE <<>>
    IN [img |-> image_tag, caption |-> caption_text,
        buttons |-> dynamic_buttons, footer |-> footer_buttons]

build_blog_post_html(image_url, caption_text, links_list) ==
    LET dynamic_buttons ==
            IF Len(links_list) = 1
            THEN <<[href |-> links_list[1], label |-> <<"Watch Video">>]>>
            ELSE [j \in 1..Len(links_list) |->
                     LET i == j - 1     \* enumerate(links_list) counts from 0
                     IN [href |-> links_list[j], label |-> <<"Watch Video", i + 1>>]]
        footer_buttons ==
            (IF TELEGRAM_CHANNEL_LINK # None
             THEN <<[href |-> TELEGRAM_CHANNEL_LINK, label |-> <<"Join All Channels">>]>>
             ELSE <<>>)
            \o
            (IF INSTAGRAM_LINK # None
             THEN <<[href |-> INSTAGRAM_LINK, label |-> <<"Follow on Instagram">>]>>
             ELSE <<>>)
        image_tag == IF image_url # None THEN <<[src |-> image_url]>> ELSE <<>>
    IN [img |-> image_tag, caption |-> caption_text,
        buttons |-> dynamic_buttons, footer |-> footer_buttons]

----------------------------------------------------------------------------
(* process_and_publish_post *)

MsgNoGoogle == "Error: Could not connect to Google."
MsgUploadFailed == "Error: Failed to upload image."
MsgSuccess == "Success! Post published."
MsgUnexpected == "An unexpected error occurred."

LogNoService == "ERROR! Could not build Google Blogger service."
LogSuccess == "SUCCESS! Post published."
LogFailed == "ERROR! Failed to post."

NoPost == [title |-> None, content |-> None]

\* the progress of one attempt: what was logged, which messages were handed
\* to bot.send_message (tried) and delivered (sent), the calls made and how
\* each ended, and whether an exception is propagating
Attempt0 ==
    [audit |-> <<>>, tried |-> <<>>, sent |-> <<>>, service_calls |-> 0,
     upload_calls |-> 0, insert_calls |-> 0, service |-> "", upload |-> "",
     insert |-> "", image_url |-> None, post |-> NoPost, exc |-> FALSE]

\* context.bot.send_message(chat_id=chat_id, text=text)
bot_send_message(st, text, delivered) ==
    IF delivered
    THEN [st EXCEPT !.tried = Append(@, text), !.sent = Append(@, text)]
    ELSE [st EXCEPT !.tried = Append(@, text), !.exc = TRUE]

\* lines 127-131: render, insert, report the success
publish_insert(st, title, caption_text, links_list, notify, out) ==
    LET body == [title |-> title,
                 content |-> build_blog_post_html(st.image_url, caption_text, links_list)]
        called == [st EXCEPT !.insert_calls = @ + 1, !.insert = out.ins]
    IN IF out.ins # "ok" THEN [called EXCEPT !.exc = TRUE]
       ELSE LET logged == [called EXCEPT !.post = body,
                                         !.audit = send_log(@, LogSuccess, FALSE)]
            IN IF notify THEN bot_send_message(logged, MsgSuccess, out.r1) ELSE logged

\* publish_try with a text-only fallback when the upload yields no URL
publish_try_text_fallback(title, caption_text, photo_path, links_list, notify, fs, out) ==
    LET svc == get_blogger_service(out)
        st1 == [Attempt0 EXCEPT !.service_calls = 1, !.service = out.svc,
                                !.audit = svc.audit]
    IN IF ~svc.service
       THEN LET logged == [st1 EXCEPT !.audit = send_log(@, LogNoService, TRUE)]
            IN IF notify THEN bot_send_message(logged, MsgNoGoogle, out.r1) ELSE logged
       ELSE IF photo_path # None /\ photo_path \in fs
       THEN LET up == upload_to_imagebb(photo_path, out)
                st2 == [st1 EXCEPT !.upload_calls = 1, !.upload = out.up,
                                   !.image_url = up.url]
            IN IF up.raised THEN [st2 EXCEPT !.exc = TRUE]
               ELSE publish_insert(st2, title, caption_text, links_list, notify, out)
       ELSE publish_insert(st1, title, caption_text, links_list, notify, out)

\* publish_try without the return that follows the missing client
publish_try_no_return(title, caption_text, photo_path, links_list, notify, fs, out) ==
    LET svc == get_blogger_service(out)
        st1 == [Attempt0 EXCEPT !.service_calls = 1, !.service = out.svc,
                                !.audit = svc.audit]
        logged == IF svc.service THEN st1
                  ELSE [st1 EXCEPT !.audit = send_log(@, LogNoService, TRUE)]
        told == IF ~svc.service /\ notify
                THEN bot_send_message(logged, MsgNoGoogle, out.r1) ELSE logged
    IN IF told.exc THEN told
       ELSE IF photo_path # None /\ photo_path \in fs
       THEN LET up == upload_to_imagebb(photo_path, out)
                st2 == [told EXCEPT !.upload_calls = 1, !.upload = out.up,
                                    !.image_url = up.url]
            IN IF up.raised THEN [st2 EXCEPT !.exc = TRUE]
               ELSE IF up.url = None
               THEN (IF notify THEN bot_send_message(st2, MsgUploadFailed, out.r1) ELSE st2)
               ELSE publish_insert(st2, title, caption_text, links_list, notify, out)
       ELSE publish_insert(told, title, caption_text, links_list, notify, out)

\* lines 116-131: the body of the try statement
publish_try(title, caption_text, photo_path, links_list, notify, fs, out) ==
    LET svc == get_blogger_service(out)
        st1 == [Attempt0 EXCEPT !.service_calls = 1, !.service = out.svc,
                                !.audit = svc.audit]
    IN IF ~svc.service
       THEN LET logged == [st1 EXCEPT !.audit = send_log(@, LogNoService, TRUE)]
            IN IF notify THEN bot_send_message(logged, MsgNoGoogle, out.r1) ELSE logged
       ELSE IF photo_path # None /\ photo_path \in fs
       THEN LET up == upload_to_imagebb(photo_path, out)
                st2 == [st1 EXCEPT !.upload_calls = 1, !.upload = out.up,
                                   !.image_url = up.url]
            IN IF up.raised THEN [st2 EXCEPT !.exc = TRUE]
               ELSE IF up.url = None
               THEN (IF notify THEN bot_send_message(st2, MsgUploadFailed, out.r1) ELSE st2)
               ELSE publish_insert(st2, title, caption_text, links_list, notify, out)
       ELSE publish_insert(st1, title, caption_text, links_list, notify, out)

\* lines 132-135: except Exception
publish_except(st, notify, out) ==
    IF ~st.exc THEN st
    ELSE LET logged == [st EXCEPT !.exc = FALSE, !.audit = send_log(@, LogFailed, TRUE)]
         IN IF notify THEN bot_send_message(logged, MsgUnexpected, out.r2) ELSE logged

\* lines 136-137: finally
publish_finally(photo_path, fs) ==
    IF photo_path # None /\ photo_path \in fs THEN fs \ {photo_path} ELSE fs

\* the routine with the removal at the end of the try body instead of in a
\* finally clause: the early returns and an exception skip it
process_and_publish_post_remove_in_try(title, caption_text, photo_path, links_list, source, chat_id, fs, out) ==
    LET notify == source = "manual" /\ chat_id # NoneId
        try == publish_try(title, caption_text, photo_path, links_list, notify, fs, out)
        st == publish_except(try, notify, out)
    IN [called |-> TRUE, source |-> source, chat_id |-> chat_id,
        photo_path |-> photo_path, file_existed |-> (photo_path # None /\ photo_path \in fs),
        links |-> links_list, title |-> title, caption |-> caption_text,
        st |-> st,
        files |-> IF ~try.exc /\ try.post # NoPost THEN publish_finally(photo_path, fs)
                  ELSE fs]

\* The whole routine: the attempt as it ends (exc: the exception leaves the
\* routine), the files afterwards, and what it was called with.
process_and_publish_post(title, caption_text, photo_path, links_list, source, chat_id, fs, out) ==
    LET notify == source = "manual" /\ chat_id # NoneId
        st == publish_except(
                  publish_try(title, caption_text, photo_path, links_list, notify, fs, out),
                  notify, out)
    IN [called |-> TRUE, source |-> source, chat_id |-> chat_id,
        photo_path |-> photo_path, file_existed |-> (photo_path # None /\ photo_path \in fs),
        links |-> links_list, title |-> title, caption |-> caption_text,
        st |-> st, files |-> publish_finally(photo_path, fs)]

NoAttempt ==
    [called |-> FALSE, source |-> "", chat_id |-> NoneId, photo_path |-> None,
     file_existed |-> FALSE, links |-> <<>>, title |-> None, caption |-> None,
     st |-> Attempt0, files |-> {}]

----------------------------------------------------------------------------
(* State *)

EmptyDict == [k \in {} |-> None]

dict_set(d, key, value) ==
    [k \in DOMAIN d \cup {key} |-> IF k = key THEN value ELSE d[k]]

\* d.get(key, default)
dict_get(d, key, default) == IF key \in DOMAIN d THEN d[key] ELSE default

\* what is observed of the handling of one update
Event(handler, u, pre, pre_media, replies, audit, raised, dl, pub, repeat) ==
    [handler |-> handler, u |-> u, pre |-> pre, pre_media |-> pre_media,
     replies |-> replies, audit |-> audit, raised |-> raised, dl |-> dl,
     pub |-> pub, repeat |-> repeat]

NoUpdate == Update("", NoneId, NoneId, "", <<>>, "", <<>>, 0)

\* nothing entered yet in the run of a conversation
NoEntry == [title |-> None, caption |-> None]

\* the threads in which the web server runs webhook()
Threads == {"t1", "t2"}
Idle == [pc |-> "idle", u |-> NoUpdate, domain |-> "", buffer |-> <<>>]

NoRender == [image_url |-> None, caption_text |-> <<>>, links_list |-> <<>>,
             html |-> <<>>, done |-> FALSE]

Init ==
    /\ conversations = [k \in ConvKeys |-> END]
    /\ user_data = [usr \in Users |-> EmptyDict]
    /\ files = {}
    /\ VALID_LINK_DOMAINS = DEFAULT_DOMAINS
    /\ domains_file = save_domains(DEFAULT_DOMAINS)
    /\ media = [k \in ConvKeys |-> None]
    /\ published = {}
    /\ last = Event("init", NoUpdate, END, None, <<>>, <<>>, FALSE, None, NoAttempt, FALSE)
    /\ entered = [k \in ConvKeys |-> NoEntry]
    /\ workers = [t \in Threads |-> Idle]
    /\ render = NoRender

\* the conversation state of the update's key before the update (END for
\* updates outside a conversation)
PreState(u) == IF ConvKey(u) \in ConvKeys THEN conversations[ConvKey(u)] ELSE END
PreMedia(u) == IF ConvKey(u) \in ConvKeys THEN media[ConvKey(u)] ELSE None

----------------------------------------------------------------------------
(* Manual posting handlers *)

start(u) ==
    /\ dispatcher(u, conversations) = "start"
    /\ UNCHANGED <<workers, render>>
    /\ entered' = [entered EXCEPT ![ConvKey(u)] = NoEntry]
    /\ user_data' = [user_data EXCEPT ![u.user] = EmptyDict]
    /\ conversations' = [conversations EXCEPT ![ConvKey(u)] = GET_TITLE]
    /\ media' = [media EXCEPT ![ConvKey(u)] = None]
    /\ published' = published \ {ConvKey(u)}
    /\ last' = Event("start", u, PreState(u), PreMedia(u), <<"First, what is the title?">>,
                     send_log(<<>>, "MANUAL: New conversation started", FALSE),
                     FALSE, None, NoAttempt, FALSE)
    /\ UNCHANGED <<files, VALID_LINK_DOMAINS, domains_file>>

get_title(u) ==
    /\ dispatcher(u, conversations) = "get_title"
    /\ UNCHANGED <<workers, render>>
    /\ entered' = [entered EXCEPT ![ConvKey(u)].title = u.text]
    /\ user_data' = [user_data EXCEPT ![u.user] = dict_set(@, "title", u.text)]
    /\ conversations' = [conversations EXCEPT ![ConvKey(u)] = GET_MEDIA]
    /\ last' = Event("get_title", u, PreState(u), PreMedia(u),
                     <<"Now, please send the photo or video, or /skip.">>,
                     <<>>, FALSE, None, NoAttempt, FALSE)
    /\ UNCHANGED <<files, VALID_LINK_DOMAINS, domains_file, media, published>>

\* a video without a thumbnail: video.thumb is None and .get_file() raises
\* before anything is downloaded or stored
get_media(u) ==
    /\ dispatcher(u, conversations) = "get_media"
    /\ UNCHANGED <<workers, render>>
    /\ UNCHANGED entered
    /\ IF u.kind = "video_nothumb"
       THEN /\ last' = Event("get_media", u, PreState(u), PreMedia(u), <<>>, <<>>,
                             TRUE, None, NoAttempt, FALSE)
            /\ UNCHANGED <<conversations, user_data, files, media>>
       ELSE /\ files' = files \cup {photo_path_of(u.file_id)}
            /\ user_data' = [user_data EXCEPT ![u.user] =
                                 dict_set(@, "photo_path", photo_path_of(u.file_id))]
            /\ conversations' = [conversations EXCEPT ![ConvKey(u)] = GET_CAPTION]
            /\ media' = [media EXCEPT ![ConvKey(u)] = photo_path_of(u.file_id)]
            /\ last' = Event("get_media", u, PreState(u), PreMedia(u),
                             <<"Media received. Next, send the caption.">>, <<>>,
                             FALSE, photo_path_of(u.file_id), NoAttempt, FALSE)
    /\ UNCHANGED <<VALID_LINK_DOMAINS, domains_file, published>>

skip_media(u) ==
    /\ dispatcher(u, conversations) = "skip_media"
    /\ UNCHANGED <<workers, render>>
    /\ UNCHANGED entered
    /\ user_data' = [user_data EXCEPT ![u.user] = dict_set(@, "photo_path", None)]
    /\ conversations' = [conversations EXCEPT ![ConvKey(u)] = GET_CAPTION]
    /\ last' = Event("skip_media", u, PreState(u), PreMedia(u),
                     <<"No media will be used. Now, please send the caption.">>,
                     <<>>, FALSE, None, NoAttempt, FALSE)
    /\ UNCHANGED <<files, VALID_LINK_DOMAINS, domains_file, media, published>>

media_prompt(u) ==
    /\ dispatcher(u, conversations) = "media_prompt"
    /\ UNCHANGED <<workers, render>>
    /\ UNCHANGED entered
    /\ last' = Event("media_prompt", u, PreState(u), PreMedia(u),
                     <<"Please send a photo/video, or use /skip.">>,
                     <<>>, FALSE, None, NoAttempt, FALSE)
    /\ UNCHANGED <<conversations, user_data, files, VALID_LINK_DOMAINS, domains_file,
                   media, published>>

get_caption(u) ==
    /\ dispatcher(u, conversations) = "get_caption"
    /\ UNCHANGED <<workers, render>>
    /\ entered' = [entered EXCEPT ![ConvKey(u)].caption = u.text]
    /\ user_data' = [user_data EXCEPT ![u.user] = dict_set(@, "caption", u.text)]
    /\ conversations' = [conversations EXCEPT ![ConvKey(u)] = GET_LINKS]
    /\ last' = Event("get_caption", u, PreState(u), PreMedia(u),
                     <<"Caption saved. Finally, send the video link(s).">>,
                     <<>>, FALSE, None, NoAttempt, FALSE)
    /\ UNCHANGED <<files, VALID_LINK_DOMAINS, domains_file, media, published>>

NoTitle == <<<<"No Title">>>>

\* lines 234-240 of create_manual_post: the publish call with the session's values
manual_publish(u, data, fs, out) ==
    process_and_publish_post(dict_get(data, "title", NoTitle),
                             dict_get(data, "caption", <<>>),
                             dict_get(data, "photo_path", None),
                             findall_urls(u.text), "manual", u.chat, fs, out)

\* When the publish routine raises, the handler raises: the session is not
\* cleared and the ConversationHandler keeps the state.
create_manual_post(u) ==
    /\ dispatcher(u, conversations) = "create_manual_post"
    /\ UNCHANGED <<workers, render>>
    /\ IF findall_urls(u.text) = <<>>
       THEN /\ last' = Event("create_manual_post", u, PreState(u), PreMedia(u),
                             <<"No valid links found. Please send the link(s) again or /cancel.">>,
                             <<>>, FALSE, None, NoAttempt, FALSE)
            /\ UNCHANGED <<conversations, user_data, files, media, published, entered>>
       ELSE \E out \in OutcomesFor(dict_get(user_data[u.user], "photo_path", None) \in files,
                                    TRUE) :
            \E attempt \in {manual_publish(u, user_data[u.user], files, out)} :
               /\ files' = attempt.files
               /\ last' = Event("create_manual_post", u, PreState(u), PreMedia(u),
                                <<"Got it! Publishing to your blog...">>,
                                attempt.st.audit, attempt.st.exc, None, attempt,
                                ConvKey(u) \in published)
               /\ IF attempt.st.exc
                  THEN /\ published' = published \cup {ConvKey(u)}
                       /\ UNCHANGED <<conversations, user_data, media, entered>>
                  ELSE /\ user_data' = [user_data EXCEPT ![u.user] = EmptyDict]
                       /\ entered' = [entered EXCEPT ![ConvKey(u)] = NoEntry]
                       /\ conversations' = [conversations EXCEPT ![ConvKey(u)] = END]
                       /\ media' = [media EXCEPT ![ConvKey(u)] = None]
                       /\ published' = published \ {ConvKey(u)}
    /\ UNCHANGED <<VALID_LINK_DOMAINS, domains_file>>

\* line 244: the file named by the session, if the session names one that exists
cancel_remove(data, fs) ==
    IF "photo_path" \in DOMAIN data /\ data["photo_path"] # None
       /\ data["photo_path"] \in fs
    THEN fs \ {data["photo_path"]}
    ELSE fs

cancel(u) ==
    /\ dispatcher(u, conversations) = "cancel"
    /\ UNCHANGED <<workers, render>>
    /\ entered' = [entered EXCEPT ![ConvKey(u)] = NoEntry]
    /\ files' = cancel_remove(user_data[u.user], files)
    /\ user_data' = [user_data EXCEPT ![u.user] = EmptyDict]
    /\ conversations' = [conversations EXCEPT ![ConvKey(u)] = END]
    /\ media' = [media EXCEPT ![ConvKey(u)] = None]
    /\ published' = published \ {ConvKey(u)}
    /\ last' = Event("cancel", u, PreState(u), PreMedia(u), <<"Operation cancelled.">>,
                     <<>>, FALSE, None, NoAttempt, FALSE)
    /\ UNCHANGED <<VALID_LINK_DOMAINS, domains_file>>

----------------------------------------------------------------------------
(* Automated channel post handler *)

JunkPatterns == {Junk}

\* lines 182-186: the caption without its URLs, junk phrases and empty lines
clean_caption(full_caption) ==
    SelectSeq(full_caption, LAMBDA t : ~IsUrl(t) /\ t \notin JunkPatterns)

\* valid_urls_of without the allowlist
valid_urls_of_any(all_urls, domains) == all_urls

\* line 170
valid_urls_of(all_urls, domains) ==
    SelectSeq(all_urls, LAMBDA url : \E domain \in domains : domain_in(domain, url))

ChannelResult(step, audit, raised, dl, pub, fs) ==
    [step |-> step, audit |-> audit, raised |-> raised, dl |-> dl, pub |-> pub,
     files |-> fs]

LogStep1 == "[Step 1/5] Received a new post"
LogStep2 == "[Step 2/5] Post passed initial filters"
LogStep3 == "[Step 3/5] Found these URLs"
LogStep4 == "[Step 4/5] Checking URLs against allowed domains"
LogStep5 == "[Step 5/5] Success! Found valid links"
LogIgnoredSource == "[IGNORED] Post is from a channel not in the source list"
LogIgnoredMedia == "[IGNORED] Post does not contain a photo or video"
LogIgnoredNoUrl == "[IGNORED] No URLs were found in the caption"
LogIgnoredDomain == "[IGNORED] None of the found URLs matched the allowed domains"
LogFallbackTitle == "Could not extract a clean caption. Using fallback title"

\* lines 179-196: after the four filters
channel_publish(u, log, valid_urls, fs, out) ==
    IF u.kind = "video_nothumb"
    THEN ChannelResult("raise", log, TRUE, None, NoAttempt, fs)
    ELSE LET main_caption == clean_caption(u.text)
             title == IF main_caption = <<>> THEN <<<<"New Post from", u.chat>>>>
                      ELSE <<main_caption[1]>>
             log5 == IF main_caption = <<>> THEN send_log(log, LogFallbackTitle, FALSE)
                     ELSE log
             photo_path == photo_path_of(u.file_id)
             attempt == process_and_publish_post(title, main_caption, photo_path, valid_urls,
                                                 "automation", NoneId,
                                                 fs \cup {photo_path}, out)
         IN ChannelResult("publish", log5 \o attempt.st.audit, attempt.st.exc,
                          photo_path, attempt, attempt.files)

channel_post_handler(u, domains, fs, out) ==
    IF u.utype # "channel_post"
    THEN ChannelResult("not a channel post", <<>>, FALSE, None, NoAttempt, fs)
    ELSE LET log1 == send_log(<<>>, LogStep1, FALSE)
             all_urls == findall_urls(u.text)
             valid_urls == valid_urls_of(all_urls, domains)
         IN IF u.chat \notin SOURCE_CHANNEL_IDS
            THEN ChannelResult("filter 1", send_log(log1, LogIgnoredSource, FALSE),
                               FALSE, None, NoAttempt, fs)
            ELSE IF u.kind \notin MediaKinds
            THEN ChannelResult("filter 2", send_log(log1, LogIgnoredMedia, FALSE),
                               FALSE, None, NoAttempt, fs)
            ELSE IF all_urls = <<>>
            THEN ChannelResult("filter 3",
                               send_log(send_log(log1, LogStep2, FALSE),
                                        LogIgnoredNoUrl, FALSE),
                               FALSE, None, NoAttempt, fs)
            ELSE IF valid_urls = <<>>
            THEN ChannelResult("filter 4",
                               send_log(send_log(send_log(send_log(log1, LogStep2, FALSE),
                                   LogStep3, FALSE), LogStep4, FALSE), LogIgnoredDomain, FALSE),
                               FALSE, None, NoAttempt, fs)
            ELSE channel_publish(u,
                                 send_log(send_log(send_log(send_log(log1, LogStep2, FALSE),
                                     LogStep3, FALSE), LogStep4, FALSE), LogStep5, FALSE),
                                 valid_urls, fs, out)

DefaultOutcome == [svc |-> "ok", up |-> "url", ins |-> "ok", r1 |-> TRUE, r2 |-> TRUE]

channel_post(u) ==
    /\ dispatcher(u, conversations) = "channel_post_handler"
    /\ UNCHANGED <<workers, render>>
    /\ UNCHANGED entered
    /\ \E out \in (IF channel_post_handler(u, VALID_LINK_DOMAINS, files, DefaultOutcome).step
                        = "publish"
                   THEN OutcomesFor(TRUE, FALSE) ELSE {DefaultOutcome}) :
       \E r \in {channel_post_handler(u, VALID_LINK_DOMAINS, files, out)} :
          /\ files' = r.files
          /\ last' = Event("channel_post_handler", u, r.step, None, <<>>, r.audit,
                           r.raised, r.dl, r.pub, FALSE)
    /\ UNCHANGED <<conversations, user_data, VALID_LINK_DOMAINS, domains_file, media,
                   published>>

----------------------------------------------------------------------------
(* Admin handlers *)

\* the argument as typed
lower_as_typed(arg) == arg

\* str.lower() of the arguments the model sends
lower(arg) == IF arg = "TeraBox.COM" THEN "terabox.com" ELSE arg

\* add_site without the test of line 249
add_site_for_everyone(u) ==
    /\ dispatcher(u, conversations) = "add_site"
    /\ UNCHANGED <<workers, render, entered>>
    /\ IF u.args = <<>>
       THEN /\ last' = Event("add_site", u, PreState(u), PreMedia(u),
                             <<"Usage: /addsite <domain.com>">>, <<>>, FALSE,
                             None, NoAttempt, FALSE)
            /\ UNCHANGED <<VALID_LINK_DOMAINS, domains_file>>
       ELSE IF lower(u.args[1]) \in VALID_LINK_DOMAINS
       THEN /\ last' = Event("add_site", u, PreState(u), PreMedia(u),
                             <<"Domain is already in the list.">>, <<>>, FALSE,
                             None, NoAttempt, FALSE)
            /\ UNCHANGED <<VALID_LINK_DOMAINS, domains_file>>
       ELSE /\ VALID_LINK_DOMAINS' = VALID_LINK_DOMAINS \cup {lower(u.args[1])}
            /\ domains_file' = save_domains(VALID_LINK_DOMAINS')
            /\ last' = Event("add_site", u, PreState(u), PreMedia(u),
                             <<"Domain added successfully.">>, <<>>, FALSE,
                             None, NoAttempt, FALSE)
    /\ UNCHANGED <<conversations, user_data, files, media, published>>

add_site(u) ==
    /\ dispatcher(u, conversations) = "add_site"
    /\ UNCHANGED <<workers, render>>
    /\ UNCHANGED entered
    /\ IF u.user # ADMIN_ID
       THEN /\ last' = Event("add_site", u, PreState(u), PreMedia(u), <<>>, <<>>, FALSE,
                             None, NoAttempt, FALSE)
            /\ UNCHANGED <<VALID_LINK_DOMAINS, domains_file>>
       ELSE IF u.args = <<>>
       THEN /\ last' = Event("add_site", u, PreState(u), PreMedia(u),
                             <<"Usage: /addsite <domain.com>">>, <<>>, FALSE,
                             None, NoAttempt, FALSE)
            /\ UNCHANGED <<VALID_LINK_DOMAINS, domains_file>>
       ELSE IF lower(u.args[1]) \in VALID_LINK_DOMAINS
       THEN /\ last' = Event("add_site", u, PreState(u), PreMedia(u),
                             <<"Domain is already in the list.">>, <<>>, FALSE,
                             None, NoAttempt, FALSE)
            /\ UNCHANGED <<VALID_LINK_DOMAINS, domains_file>>
       ELSE /\ VALID_LINK_DOMAINS' = VALID_LINK_DOMAINS \cup {lower(u.args[1])}
            /\ domains_file' = save_domains(VALID_LINK_DOMAINS')
            /\ last' = Event("add_site", u, PreState(u), PreMedia(u),
                             <<"Domain added successfully.">>, <<>>, FALSE,
                             None, NoAttempt, FALSE)
    /\ UNCHANGED <<conversations, user_data, files, media, published>>

remove_site(u) ==
    /\ dispatcher(u, conversations) = "remove_site"
    /\ UNCHANGED <<workers, render>>
    /\ UNCHANGED entered
    /\ IF u.user # ADMIN_ID
       THEN /\ last' = Event("remove_site", u, PreState(u), PreMedia(u), <<>>, <<>>, FALSE,
                             None, NoAttempt, FALSE)
            /\ UNCHANGED <<VALID_LINK_DOMAINS, domains_file>>
       ELSE IF u.args = <<>>
       THEN /\ last' = Event("remove_site", u, PreState(u), PreMedia(u),
                             <<"Usage: /removesite <domain.com>">>, <<>>, FALSE,
                             None, NoAttempt, FALSE)
            /\ UNCHANGED <<VALID_LINK_DOMAINS, domains_file>>
       ELSE IF lower(u.args[1]) \in VALID_LINK_DOMAINS
       THEN /\ VALID_LINK_DOMAINS' = VALID_LINK_DOMAINS \ {lower(u.args[1])}
            /\ domains_file' = save_domains(VALID_LINK_DOMAINS')
            /\ last' = Event("remove_site", u, PreState(u), PreMedia(u),
                             <<"Domain removed successfully.">>, <<>>, FALSE,
                             None, NoAttempt, FALSE)
       ELSE /\ last' = Event("remove_site", u, PreState(u), PreMedia(u),
                             <<"Domain not found.">>, <<>>, FALSE,
                             None, NoAttempt, FALSE)
            /\ UNCHANGED <<VALID_LINK_DOMAINS, domains_file>>
    /\ UNCHANGED <<conversations, user_data, files, media, published>>

list_sites(u) ==
    /\ dispatcher(u, conversations) = "list_sites"
    /\ UNCHANGED <<workers, render>>
    /\ UNCHANGED entered
    /\ last' = Event("list_sites", u, PreState(u), PreMedia(u),
                     IF u.user # ADMIN_ID THEN <<>>
                     ELSE IF VALID_LINK_DOMAINS = {}
                     THEN <<"The list of allowed domains is empty.">>
                     ELSE <<"Currently Allowed Domains:">> \o save_domains(VALID_LINK_DOMAINS),
                     <<>>, FALSE, None, NoAttempt, FALSE)
    /\ UNCHANGED <<conversations, user_data, files, VALID_LINK_DOMAINS, domains_file,
                   media, published>>

help_command(u) ==
    /\ dispatcher(u, conversations) = "help_command"
    /\ UNCHANGED <<workers, render>>
    /\ UNCHANGED entered
    /\ last' = Event("help_command", u, PreState(u), PreMedia(u),
                     IF u.user = ADMIN_ID THEN <<"User Commands", "Admin Commands">>
                     ELSE <<"User Commands">>,
                     <<>>, FALSE, None, NoAttempt, FALSE)
    /\ UNCHANGED <<conversations, user_data, files, VALID_LINK_DOMAINS, domains_file,
                   media, published>>

\* an update no handler of the dispatcher accepts is dropped
unhandled(u) ==
    /\ dispatcher(u, conversations) = NoHandler
    /\ UNCHANGED <<workers, render>>
    /\ UNCHANGED entered
    /\ last' = Event(NoHandler, u, PreState(u), PreMedia(u), <<>>, <<>>, FALSE, None,
                     NoAttempt, FALSE)
    /\ UNCHANGED <<conversations, user_data, files, VALID_LINK_DOMAINS, domains_file,
                   media, published>>

----------------------------------------------------------------------------
(* webhook: one update is processed at a time *)

Commands(name) == {u \in CommandUpdates : u.cmd = name}
From(updates, keys) == {u \in updates : ConvKey(u) \in keys}

\* The bot without the commands that change the allowlist, for the
\* conversations of `keys`.  Each handler is tried on the kinds of update its
\* filter can accept; the dispatcher decides.
Bot(keys) ==
    \/ \E u \in From(Commands("start"), keys) : start(u)
    \/ \E u \in From(TextUpdates, keys) : get_title(u)
    \/ \E u \in From(MediaUpdates, keys) : get_media(u)
    \/ \E u \in From(Commands("skip"), keys) : skip_media(u)
    \/ \E u \in From(TextUpdates, keys) : media_prompt(u)
    \/ \E u \in From(CaptionUpdates, keys) : get_caption(u)
    \/ \E u \in From(TextUpdates, keys) : create_manual_post(u)
    \/ \E u \in From(Commands("cancel"), keys) : cancel(u)
    \/ \E u \in ChannelPosts(BotCaptions, BotMediaKinds, FileIds) : channel_post(u)
    \/ \E u \in From(Commands("help"), keys) : help_command(u)
    \/ \E u \in From(Updates, keys) \cup ChannelPosts(BotCaptions, BotMediaKinds, FileIds) :
          unhandled(u)

\* one user in two chats
Next == Bot(ManualKeys)

Spec == Init /\ [][Next]_vars

\* The channel pipeline and the allowlist commands, over every caption up to
\* MaxCaptionLen.
NextChannel ==
    \/ \E u \in ChannelPosts(Captions, MediaKinds, {1}) : channel_post(u)
    \/ \E u \in Commands("addsite") : add_site(u)
    \/ \E u \in Commands("removesite") : remove_site(u)
    \/ \E u \in Commands("listsites") : list_sites(u)
    \/ \E u \in Commands("help") : help_command(u)
    \/ \E u \in ChannelUpdates : unhandled(u)

SpecChannel == Init /\ [][NextChannel]_vars

\* One operator in one chat, and the channel feed.
NextOne == Bot({<<"c1", "u1">>})

SpecOne == Init /\ [][NextOne]_vars

----------------------------------------------------------------------------
(* add_site and remove_site in concurrent request threads.  app.run serves   *)
(* each request in a thread of its own, so two webhook() calls can overlap.  *)
(* A thread's position is the statement it executes next:                    *)
(*   "test"    domain in VALID_LINK_DOMAINS            (lines 254, 266)      *)
(*   "update"  VALID_LINK_DOMAINS.add / .discard       (lines 257, 267)      *)
(*   "open"    open(DOMAINS_FILE, "w"), which truncates the file (line 68)   *)
(*   "sorted"  sorted(list(domains_set)), written to the file object's       *)
(*             buffer (lines 69-70)                                          *)
(*   "close"   end of the with block: the buffer is written at the file      *)
(*             object's own offset 0 (line 68)                               *)
(*   "reply"   update.message.reply_text, then return  (lines 258, 268)      *)

SiteHandler(u) == IF u.cmd = "addsite" THEN "add_site" ELSE "remove_site"

SiteEvent(u, replies) ==
    Event(SiteHandler(u), u, PreState(u), PreMedia(u), replies, <<>>, FALSE, None,
          NoAttempt, FALSE)

\* what a write of `buffer` at offset 0 leaves in a file that holds `content`
\* (the lines of the model's domains have the same length)
write_at_start(content, buffer) ==
    buffer \o SubSeq(content, Len(buffer) + 1, Len(content))

\* lines 249-253 and 261-265: a thread takes a request; the handler returns at
\* once for another user or without argument
webhook(t, u) ==
    /\ workers[t].pc = "idle"
    /\ IF u.user # ADMIN_ID
       THEN /\ last' = SiteEvent(u, <<>>)
            /\ UNCHANGED workers
       ELSE IF u.args = <<>>
       THEN /\ last' = SiteEvent(u, IF u.cmd = "addsite"
                                    THEN <<"Usage: /addsite <domain.com>">>
                                    ELSE <<"Usage: /removesite <domain.com>">>)
            /\ UNCHANGED workers
       ELSE /\ workers' = [workers EXCEPT ![t] =
                              [pc |-> "test", u |-> u, domain |-> lower(u.args[1]),
                               buffer |-> <<>>]]
            /\ UNCHANGED last
    /\ UNCHANGED <<conversations, user_data, files, VALID_LINK_DOMAINS, domains_file,
                   media, published, entered, render>>

site_test(t) ==
    /\ workers[t].pc = "test"
    /\ LET w == workers[t]
           present == w.domain \in VALID_LINK_DOMAINS
       IN IF w.u.cmd = "addsite" /\ present
          THEN /\ last' = SiteEvent(w.u, <<"Domain is already in the list.">>)
               /\ workers' = [workers EXCEPT ![t] = Idle]
          ELSE IF w.u.cmd = "removesite" /\ ~present
          THEN /\ last' = SiteEvent(w.u, <<"Domain not found.">>)
               /\ workers' = [workers EXCEPT ![t] = Idle]
          ELSE /\ workers' = [workers EXCEPT ![t].pc = "update"]
               /\ UNCHANGED last
    /\ UNCHANGED <<conversations, user_data, files, VALID_LINK_DOMAINS, domains_file,
                   media, published, entered, render>>

site_update(t) ==
    /\ workers[t].pc = "update"
    /\ VALID_LINK_DOMAINS' = IF workers[t].u.cmd = "addsite"
                             THEN VALID_LINK_DOMAINS \cup {workers[t].domain}
                             ELSE VALID_LINK_DOMAINS \ {workers[t].domain}
    /\ workers' = [workers EXCEPT ![t].pc = "open"]
    /\ UNCHANGED <<conversations, user_data, files, domains_file, media, published,
                   last, entered, render>>

save_domains_open(t) ==
    /\ workers[t].pc = "open"
    /\ domains_file' = <<>>
    /\ workers' = [workers EXCEPT ![t].pc = "sorted"]
    /\ UNCHANGED <<conversations, user_data, files, VALID_LINK_DOMAINS, media,
                   published, last, entered, render>>

save_domains_sorted(t) ==
    /\ workers[t].pc = "sorted"
    /\ workers' = [workers EXCEPT ![t].pc = "close",
                                  ![t].buffer = save_domains(VALID_LINK_DOMAINS)]
    /\ UNCHANGED <<conversations, user_data, files, VALID_LINK_DOMAINS, domains_file,
                   media, published, last, entered, render>>

save_domains_close(t) ==
    /\ workers[t].pc = "close"
    /\ domains_file' = write_at_start(domains_file, workers[t].buffer)
    /\ workers' = [workers EXCEPT ![t].pc = "reply"]
    /\ UNCHANGED <<conversations, user_data, files, VALID_LINK_DOMAINS, media,
                   published, last, entered, render>>

site_reply(t) ==
    /\ workers[t].pc = "reply"
    /\ last' = SiteEvent(workers[t].u, IF workers[t].u.cmd = "addsite"
                                       THEN <<"Domain added successfully.">>
                                       ELSE <<"Domain removed successfully.">>)
    /\ workers' = [workers EXCEPT ![t] = Idle]
    /\ UNCHANGED <<conversations, user_data, files, VALID_LINK_DOMAINS, domains_file,
                   media, published, entered, render>>

NextThreads ==
    \/ \E t \in Threads, u \in Commands("addsite") \cup Commands("removesite") :
          webhook(t, u)
    \/ \E t \in Threads : site_test(t)
    \/ \E t \in Threads : site_update(t)
    \/ \E t \in Threads : save_domains_open(t)
    \/ \E t \in Threads : save_domains_sorted(t)
    \/ \E t \in Threads : save_domains_close(t)
    \/ \E t \in Threads : site_reply(t)

SpecThreads == Init /\ [][NextThreads]_vars

----------------------------------------------------------------------------
(* build_blog_post_html applied to every input up to MaxLinks links *)

RenderInputs ==
    [image_url : {None, <<"https://", "i.ibb.co", 1>>},
     caption_text : {<<>>, <<Word>>, <<Word, Word>>},
     links_list : SeqsUpTo({UrlTera, UrlOther}, MaxLinks),
     html : {<<>>},
     done : {FALSE}]

InitHtml ==
    /\ conversations = [k \in ConvKeys |-> END]
    /\ user_data = [usr \in Users |-> EmptyDict]
    /\ files = {}
    /\ VALID_LINK_DOMAINS = DEFAULT_DOMAINS
    /\ domains_file = save_domains(DEFAULT_DOMAINS)
    /\ media = [k \in ConvKeys |-> None]
    /\ published = {}
    /\ last = Event("init", NoUpdate, END, None, <<>>, <<>>, FALSE, None, NoAttempt, FALSE)
    /\ entered = [k \in ConvKeys |-> NoEntry]
    /\ workers = [t \in Threads |-> Idle]
    /\ render \in RenderInputs

render_post ==
    /\ ~render.done
    /\ render' = [render EXCEPT
                     !.html = build_blog_post_html(render.image_url, render.caption_text,
                                                   render.links_list),
                     !.done = TRUE]
    /\ UNCHANGED <<conversations, user_data, files, VALID_LINK_DOMAINS, domains_file,
                   media, published, last, entered, workers>>

NextHtml == render_post

SpecHtml == InitHtml /\ [][NextHtml]_vars

----------------------------------------------------------------------------
(* Properties of the publish routine *)

Pub == last.pub
Att == last.pub.st

ErrorEntries(audit) == {i \in 1..Len(audit) : audit[i].is_error}
FailureMessages == {MsgNoGoogle, MsgUploadFailed, MsgUnexpected}
ToldFailure(msgs) == \E i \in 1..Len(msgs) : msgs[i] \in FailureMessages
ReplyTarget == Pub.source = "manual" /\ Pub.chat_id # NoneId

\* the attempt failed: no client, an upload that failed or gave no URL, or a
\* failed insert
AuthFailed == Att.service = "fail"
UploadFailed == Att.upload \in {"none", "raise"}
InsertFailed == Att.insert = "raise"

\* C1: whenever the publish routine was called with a media path whose file
\* existed, the file is gone when the routine is over, whatever the outcome
\* (success, no client, upload failure, insert failure, an exception that
\* leaves the routine).
C1_MediaFileRemoved ==
    (Pub.called /\ Pub.file_existed) => Pub.photo_path \notin files

\* a publish attempt whose file existed and whose insert raised
C1_Witness ==
    /\ Pub.called /\ Pub.file_existed /\ InsertFailed
    /\ Pub.photo_path \notin files

\* C2: in a manual attempt whose media file exists, an upload that fails or
\* yields no URL means: insert is never called and nothing is posted, the
\* file is removed, a failure message is handed to the operator's chat, and
\* it is delivered unless the sending itself raises.
C2_UploadFailureAborts ==
    (Pub.called /\ Pub.source = "manual" /\ Pub.file_existed /\ UploadFailed)
    => /\ Att.insert_calls = 0
       /\ Att.post = NoPost
       /\ Pub.photo_path \notin files
       /\ ToldFailure(Att.tried)
       /\ (~Att.exc => ToldFailure(Att.sent))

\* a manual attempt whose upload gave no URL and whose failure message arrived
C2_Witness ==
    /\ Pub.called /\ Pub.source = "manual" /\ Pub.file_existed
    /\ Att.upload = "none" /\ Att.sent = <<MsgUploadFailed>>

\* C3: without a client the routine makes no upload and no insert, asks for
\* the client once, logs an error entry, and hands "could not connect" to the
\* operator's chat when there is a reply target (and to no chat otherwise).
C3_NoClientStops ==
    (Pub.called /\ AuthFailed)
    => /\ Att.upload_calls = 0
       /\ Att.insert_calls = 0
       /\ Att.service_calls = 1
       /\ Att.post = NoPost
       /\ ErrorEntries(Att.audit) # {}
       /\ (ReplyTarget => Att.tried # <<>> /\ Att.tried[1] = MsgNoGoogle)
       /\ (ReplyTarget /\ ~Att.exc => ToldFailure(Att.sent))
       /\ (~ReplyTarget => Att.tried = <<>>)

\* a manual attempt without a client, the operator told
C3_Witness ==
    /\ Pub.called /\ AuthFailed /\ ReplyTarget
    /\ Att.sent = <<MsgNoGoogle>>

\* C4 (as claimed): a failed attempt logs exactly one error entry, sends exactly
\* one message when there is a reply target, and makes no call twice.
C4_FailureReportedOnce ==
    (Pub.called /\ (AuthFailed \/ UploadFailed \/ InsertFailed))
    => /\ Cardinality(ErrorEntries(Att.audit)) = 1
       /\ (ReplyTarget => Len(Att.tried) = 1)
       /\ Att.service_calls <= 1 /\ Att.upload_calls <= 1 /\ Att.insert_calls <= 1

\* C5 (as claimed): no exception leaves the publish routine.
C5_NothingPropagates == Pub.called => ~Att.exc

----------------------------------------------------------------------------
(* Properties of the channel pipeline *)

\* the four filters of the pipeline, stated on the post itself
FromSourceChannel(u) == u.chat \in SOURCE_CHANNEL_IDS
HasMedia(u) == u.kind \in {"photo", "video", "video_nothumb"}
HasUrl(u) == \E i \in 1..Len(u.text) : IsUrl(u.text[i])
HasAllowedUrl(u, domains) ==
    \E i \in 1..Len(u.text) :
        IsUrl(u.text[i]) /\ \E d \in domains, j \in 1..Len(u.text[i]) : u.text[i][j] = d

PassesAll(u, domains) ==
    FromSourceChannel(u) /\ HasMedia(u) /\ HasUrl(u) /\ HasAllowedUrl(u, domains)

\* the lowest-numbered filter the post fails (0: none)
FirstFailing(u, domains) ==
    IF ~FromSourceChannel(u) THEN 1
    ELSE IF ~HasMedia(u) THEN 2
    ELSE IF ~HasUrl(u) THEN 3
    ELSE IF ~HasAllowedUrl(u, domains) THEN 4
    ELSE 0

RejectionReason(n) ==
    CASE n = 1 -> LogIgnoredSource
      [] n = 2 -> LogIgnoredMedia
      [] n = 3 -> LogIgnoredNoUrl
      [] OTHER -> LogIgnoredDomain

IsChannelPost == last.u.utype = "channel_post"

\* C6: a channel post leads to a publish call or to a downloaded temp file
\* only if it passes all four filters (under the allowlist of the moment,
\* which the handling of a channel post does not change).
C6_PublishOnlyIfAllFiltersPass ==
    (IsChannelPost /\ (Pub.called \/ last.dl # None \/ files # {}))
    => PassesAll(last.u, VALID_LINK_DOMAINS)

\* a post published for a URL of a domain the admin added, after the default
\* domain was removed
C6_Witness ==
    /\ IsChannelPost /\ Pub.called /\ last.dl # None
    /\ VALID_LINK_DOMAINS = {"example.com"}
    /\ Pub.links = <<UrlOther>>

\* C7 (as claimed): a channel post that fails a filter is rejected at the
\* lowest-numbered filter it fails: nothing is published and the last audit
\* entry is the reason of that filter.
C7_RejectedAtFirstFailingFilter ==
    (IsChannelPost /\ ~PassesAll(last.u, VALID_LINK_DOMAINS))
    => /\ ~Pub.called
       /\ last.audit # <<>>
       /\ last.audit[Len(last.audit)].message
              = RejectionReason(FirstFailing(last.u, VALID_LINK_DOMAINS))

\* the part of C7 that holds: the posts that reach the handler (those with a
\* photo or a video) are rejected at the lowest-numbered filter they fail
C7_HandledPostsInOrder ==
    (IsChannelPost /\ HasMedia(last.u) /\ ~PassesAll(last.u, VALID_LINK_DOMAINS))
    => /\ ~Pub.called
       /\ last.audit # <<>>
       /\ last.audit[Len(last.audit)].message
              = RejectionReason(FirstFailing(last.u, VALID_LINK_DOMAINS))

----------------------------------------------------------------------------
(* Properties of the manual conversation *)

IsConversationEvent == last.u.utype = "message"
LastKey == ConvKey(last.u)

\* the steps of a run: it starts, stays, or advances by one state
ForwardStep(from, to) ==
    \/ to = from
    \/ <<from, to>> \in {<<END, GET_TITLE>>, <<GET_TITLE, GET_MEDIA>>,
                         <<GET_MEDIA, GET_CAPTION>>, <<GET_CAPTION, GET_LINKS>>,
                         <<GET_LINKS, END>>}

\* C8, first part: but for cancel, an event moves its conversation forward by
\* one state or not at all.
C8_ForwardOnly ==
    (IsConversationEvent /\ last.handler # "cancel")
    => ForwardStep(last.pre, conversations[LastKey])

\* C8, second part: the manual flow calls the publish routine only from
\* GET_LINKS, on a text message that holds a URL.
C8_PublishFromLinksOnly ==
    (IsConversationEvent /\ Pub.called)
    => /\ last.pre = GET_LINKS
       /\ last.u.kind = "text"
       /\ HasUrl(last.u)

\* C8 (as claimed): forward only, publish from GET_LINKS on a text with a URL,
\* and at most one publish call in a run of the conversation.
C8_ForwardAndPublishOnce ==
    /\ C8_ForwardOnly
    /\ C8_PublishFromLinksOnly
    /\ (IsConversationEvent /\ Pub.called => ~last.repeat)

\* C9 (as claimed): after /cancel in a state other than END the conversation
\* is in END, the session is empty, the temp file the conversation downloaded
\* is gone, and the publish routine was not called.
C9_CancelCleansUp ==
    (IsConversationEvent /\ last.u.kind = "command" /\ last.u.cmd = "cancel"
        /\ last.pre # END)
    => /\ conversations[LastKey] = END
       /\ DOMAIN user_data[last.u.user] = {}
       /\ (last.pre_media # None => last.pre_media \notin files)
       /\ ~Pub.called

\* C10 (as claimed): after /start, whatever the state before, the conversation
\* is in GET_TITLE with an empty session.
C10_StartReinitializes ==
    (IsConversationEvent /\ last.u.kind = "command" /\ last.u.cmd = "start")
    => /\ conversations[LastKey] = GET_TITLE
       /\ DOMAIN user_data[last.u.user] = {}

\* the part of C10 that holds: /start without a conversation
C10_StartFromEnd ==
    (IsConversationEvent /\ last.u.kind = "command" /\ last.u.cmd = "start"
        /\ last.pre = END)
    => /\ conversations[LastKey] = GET_TITLE
       /\ DOMAIN user_data[last.u.user] = {}
       /\ last.handler = "start"

----------------------------------------------------------------------------
(* Properties of the states AwaitingMedia and AwaitingLinks *)

MsgMediaPrompt == "Please send a photo/video, or use /skip."
MsgNoLinks == "No valid links found. Please send the link(s) again or /cancel."

\* the update u is a message of a conversation that is now in `state`
ArrivesIn(state, u) ==
    /\ u.utype = "message"
    /\ ConvKey(u) \in ConvKeys
    /\ conversations[ConvKey(u)] = state

\* an input of AwaitingMedia that is neither a photo or video nor /skip; /cancel
\* is left out, it ends the conversation from every state
OtherMediaInput(u) ==
    /\ ~IsMedia(u)
    /\ ~IsCommand(u, "skip")
    /\ ~IsCommand(u, "cancel")

\* C11 (as claimed): in AwaitingMedia every input other than a photo or video
\* and /skip is answered by the re-prompt, and leaves the conversation in
\* AwaitingMedia and the session as it was.
C11_OtherInputReprompts ==
    [][(ArrivesIn(GET_MEDIA, last'.u) /\ OtherMediaInput(last'.u))
       => /\ last'.replies = <<MsgMediaPrompt>>
          /\ conversations'[ConvKey(last'.u)] = GET_MEDIA
          /\ user_data' = user_data]_vars

\* the part of C11 that holds: such an input leaves the conversation in
\* AwaitingMedia and the session as it was, and plain text is re-prompted
C11_OtherInputStays ==
    [][(ArrivesIn(GET_MEDIA, last'.u) /\ OtherMediaInput(last'.u))
       => /\ IsPlainText(last'.u) => last'.replies = <<MsgMediaPrompt>>
          /\ conversations'[ConvKey(last'.u)] = GET_MEDIA
          /\ user_data' = user_data]_vars

\* C12: in AwaitingLinks a text message without URL is answered by the
\* re-prompt; the conversation stays in AwaitingLinks, the session and the
\* files on disk are as they were, and the publish routine is not called.
C12_NoLinksRecoverable ==
    [][(ArrivesIn(GET_LINKS, last'.u) /\ IsPlainText(last'.u) /\ ~HasUrl(last'.u))
       => /\ last'.replies = <<MsgNoLinks>>
          /\ conversations'[ConvKey(last'.u)] = GET_LINKS
          /\ user_data' = user_data
          /\ files' = files
          /\ ~last'.pub.called]_vars

\* a text without URL was handled in AwaitingLinks while the session named a
\* temp file, which is still on disk
C12_Witness ==
    /\ IsConversationEvent /\ last.pre = GET_LINKS
    /\ IsPlainText(last.u) /\ ~HasUrl(last.u)
    /\ last.replies = <<MsgNoLinks>>
    /\ conversations[LastKey] = GET_LINKS
    /\ dict_get(user_data[last.u.user], "photo_path", None) \in files

\* C13 (as claimed): when the handling of an event in which the manual flow
\* called the publish routine ends, the session is empty and the conversation
\* is in the terminal state, whatever the outcome of the attempt.
C13_PublishEndsConversation ==
    (IsConversationEvent /\ Pub.called)
    => /\ conversations[LastKey] = END
       /\ DOMAIN user_data[last.u.user] = {}

\* the part of C13 that holds: the attempts that do not raise
C13_ReturnedPublishEndsConversation ==
    (IsConversationEvent /\ Pub.called /\ ~Att.exc)
    => /\ conversations[LastKey] = END
       /\ DOMAIN user_data[last.u.user] = {}

----------------------------------------------------------------------------
(* Properties of the session and of the temp files across conversations *)

\* the session that the conversation of key k reads and writes
SessionOf(k) == user_data[k[2]]

\* C14 (as claimed): between events every temp file on disk is the media path
\* of the session of a conversation that is in a non-terminal state.
C14_NoOrphanTempFile ==
    \A f \in files :
        \E k \in ConvKeys :
            /\ conversations[k] # END
            /\ dict_get(SessionOf(k), "photo_path", None) = f

\* C19 (as claimed): the title, media path and caption that a manual
\* conversation passes to the publish routine are the ones its own states
\* AwaitingTitle, AwaitingMedia and AwaitingCaption received; the fallback
\* title and an empty caption are never published.
C19_PublishesOwnValues ==
    [][(last'.u.utype = "message" /\ last'.pub.called)
       => /\ last'.pub.title = entered[ConvKey(last'.u)].title
          /\ last'.pub.caption = entered[ConvKey(last'.u)].caption
          /\ last'.pub.photo_path = media[ConvKey(last'.u)]
          /\ last'.pub.title # NoTitle
          /\ last'.pub.caption # <<>>]_vars

----------------------------------------------------------------------------
(* Properties of the reports of a publish attempt *)

SuccessEntries(audit) ==
    {i \in 1..Len(audit) : ~audit[i].is_error /\ audit[i].message = LogSuccess}
ToldSuccess(msgs) == \E i \in 1..Len(msgs) : msgs[i] = MsgSuccess

\* C20 (as claimed): a success entry and a success acknowledgment only if
\* create-post succeeded, and once create-post has succeeded no error entry
\* and no failure message for that attempt.
C20_ReportsMatchOutcome ==
    Pub.called
    => /\ (SuccessEntries(Att.audit) # {} \/ ToldSuccess(Att.tried))
              => (Att.insert_calls = 1 /\ Att.insert = "ok")
       /\ (Att.insert_calls = 1 /\ Att.insert = "ok")
              => (ErrorEntries(Att.audit) = {} /\ ~ToldFailure(Att.tried))

\* the part of C20 that holds: success is reported only after create-post
\* succeeded, and then exactly once to the audit channel
C20_SuccessOnlyAfterCreatePost ==
    Pub.called
    => /\ (SuccessEntries(Att.audit) # {} \/ ToldSuccess(Att.tried))
              => (Att.insert_calls = 1 /\ Att.insert = "ok")
       /\ (Att.insert_calls = 1 /\ Att.insert = "ok")
              => Cardinality(SuccessEntries(Att.audit)) = 1

----------------------------------------------------------------------------
(* Properties of the admin commands *)

MsgAlreadyPresent == "Domain is already in the list."
MsgNotFound == "Domain not found."

\* the domain an argument names: lower-cased and trimmed
DomainNamed(arg) ==
    CASE arg = "TeraBox.COM" -> "terabox.com"
      [] OTHER -> arg

\* the admin sent the command `name` with an argument
AdminCommand(u, name) ==
    /\ u.utype = "message" /\ u.kind = "command" /\ u.cmd = name
    /\ u.user = ADMIN_ID
    /\ u.args # <<>>

AllowlistUnchanged ==
    /\ VALID_LINK_DOMAINS' = VALID_LINK_DOMAINS
    /\ domains_file' = domains_file

\* C16: adding a domain that is in the allowlist reports 'already present',
\* removing one that is not reports 'not found', and both leave the set in
\* memory and the storage file as they were; the test is made on the
\* lower-cased, trimmed argument.
C16_NoOpLeavesAllowlist ==
    [][/\ (AdminCommand(last'.u, "addsite")
            /\ DomainNamed(last'.u.args[1]) \in VALID_LINK_DOMAINS)
          => (last'.replies = <<MsgAlreadyPresent>> /\ AllowlistUnchanged)
       /\ (AdminCommand(last'.u, "removesite")
            /\ DomainNamed(last'.u.args[1]) \notin VALID_LINK_DOMAINS)
          => (last'.replies = <<MsgNotFound>> /\ AllowlistUnchanged)]_vars

\* the admin added, in capitals, a domain that was in the allowlist
C16_Witness ==
    /\ AdminCommand(last.u, "addsite")
    /\ last.u.args = <<"TeraBox.COM">>
    /\ last.replies = <<MsgAlreadyPresent>>
    /\ VALID_LINK_DOMAINS = {"example.com", "terabox.com"}
    /\ domains_file = <<"example.com", "terabox.com">>

NonAdminCommand(u, names) ==
    /\ u.utype = "message" /\ u.kind = "command" /\ u.cmd \in names
    /\ u.user # ADMIN_ID

\* C17 (as claimed): a user who is not the admin gets no response to
\* /addsite, /removesite, /listsites and /help, and the allowlist is unchanged.
C17_NonAdminSilentlyRejected ==
    [][NonAdminCommand(last'.u, {"addsite", "removesite", "listsites", "help"})
       => (last'.replies = <<>> /\ AllowlistUnchanged)]_vars

\* C17 (amended): no response to /addsite, /removesite and /listsites; /help
\* is answered with the user commands only; the allowlist is unchanged.
C17_NonAdminCannotManage ==
    [][/\ NonAdminCommand(last'.u, {"addsite", "removesite", "listsites"})
          => (last'.replies = <<>> /\ AllowlistUnchanged)
       /\ NonAdminCommand(last'.u, {"help"})
          => (last'.replies = <<"User Commands">> /\ AllowlistUnchanged)]_vars

\* a user who is not the admin asked to add a domain that is not in the
\* allowlist, and got no response
C17_Witness ==
    /\ NonAdminCommand(last.u, {"addsite"})
    /\ last.u.args = <<"example.com">>
    /\ last.replies = <<>>
    /\ "example.com" \notin VALID_LINK_DOMAINS

----------------------------------------------------------------------------
(* Properties of the rendered post *)

\* C18: the rendered post has one video button per link, in input order with
\* duplicates kept: none for no link, 'Watch Video' without index for one
\* link, 'Watch Video i' (from 1) for the i-th of several; the image tag is
\* present iff an image URL is given.
C18_ButtonsMatchLinks ==
    render.done
    => LET links == render.links_list
           buttons == render.html.buttons
       IN /\ Len(buttons) = Len(links)
          /\ \A i \in 1..Len(links) : buttons[i].href = links[i]
          /\ Len(links) = 1 => buttons[1].label = <<"Watch Video">>
          /\ Len(links) > 1
                => \A i \in 1..Len(links) : buttons[i].label = <<"Watch Video", i>>
          /\ (render.html.img # <<>>) <=> (render.image_url # None)
          /\ render.image_url # None => render.html.img = <<[src |-> render.image_url]>>

\* a post rendered for an image and three links, two of them the same
C18_Witness ==
    /\ render.done
    /\ render.links_list = <<UrlTera, UrlTera, UrlOther>>
    /\ render.image_url # None
    /\ Len(render.html.buttons) = 3

----------------------------------------------------------------------------
(* Properties of the allowlist storage *)

\* no add-domain or remove-domain operation is in progress
AllReturned == \A t \in Threads : workers[t].pc = "idle"

StorageMatchesMemory == load_domains(domains_file) = VALID_LINK_DOMAINS

\* C15 (as claimed): once the add-domain and remove-domain operations have
\* returned, the domains of the storage file are those of the allowlist in
\* memory, also when two of them ran concurrently.
C15_StorageMatchesMemory == AllReturned => StorageMatchesMemory

\* the part of C15 that holds: with one request handled at a time the file and
\* the set agree after every event
C15_SequentialStorageMatchesMemory ==
    (\A t \in Threads : workers[t] = Idle) => StorageMatchesMemory

====
